---- MODULE Spec2Model ----
(***************************************************************************)
(* Two programs of the Langyage repository:                                *)
(*                                                                         *)
(*  - the recursive-descent parser of                                      *)
(*    Recursive_parser/src/recursive_parser_secondary.cpp, as a machine    *)
(*    with an explicit call stack (one frame per active production, one    *)
(*    action per stretch of code between two calls or token reads), a heap *)
(*    of B_tree_node and the two file-scope variables id and sce_debt;     *)
(*                                                                         *)
(*  - the byte-code emission of the assembler declared in                  *)
(*    CPU/CPU/Assembler/src/assembler_additional.h.                        *)
(*                                                                         *)
(* Pointers are indices into heap, NULL is 0.  The token array is          *)
(* materialised as the parser reads it: the lexer side (SupplyChunk,       *)
(* SupplyToken) appends the next tokens of the input when the parser is    *)
(* about to read tokens->data[id] past what exists so far, or lets the     *)
(* input end there, in which case the read is out of bounds and yields an  *)
(* arbitrary token.                                                        *)
(***************************************************************************)
EXTENDS Integers, Sequences, FiniteSets, TLC

VARIABLES
    toks,       \* tokens->data, as far as it has been read (index id is toks[id + 1])
    over,       \* how many of the last entries of toks lie past the end of the input
    id,         \* the token cursor
    sce_debt,   \* static size_t sce_debt
    heap,       \* the B_tree_node objects allocated so far; a pointer is an index
    stack,      \* call stack, innermost frame last
    ret,        \* value returned by the production that returned last
    status,     \* "run", "done" (outermost production returned ret), "crash"
    errSeen,    \* SYNTAX_ERROR has been executed
    cmd_log,    \* the last get_cmd that returned a node: the debt d it was entered with,
                \* its command, and on return the debt and the chain it returned
    byte_code,  \* assembler: Buffer_w_info byte_code, the bytes written so far
    labels,     \* assembler: Labels_w_carriage
    jmp_poses,  \* assembler: JMP_poses_w_carriage
    asm_pc,     \* assembler: "start", "emit", "done", "error"
    asm_line,   \* assembler: lines of the mnemonic text processed so far
    last_write  \* assembler: the last instruction written: size class, offsets

pvars == <<toks, over, id, sce_debt, heap, stack, ret, status, errSeen, cmd_log>>
avars == <<byte_code, labels, jmp_poses, asm_pc, asm_line, last_write>>
vars == <<toks, over, id, sce_debt, heap, stack, ret, status, errSeen, cmd_log,
          byte_code, labels, jmp_poses, asm_pc, asm_line, last_write>>

NULL == 0

(***************************************************************************)
(* Bounds of the model.                                                    *)
(***************************************************************************)
MaxLen == 16        \* tokens of a statement-level input that may be flawed
MaxWfLen == 24      \* tokens of a statement-level input of complete statements
MaxDepth == 3       \* open braces of get_scope scopes at any point of an input
MaxOver == 1        \* tokens read past the end of the input
MaxExprLen == 6     \* tokens of an expression-level input

(***************************************************************************)
(* Tokens.  type is the token's tag; name is the string payload (the       *)
(* operator for OP, the keyword for KWD); num numbers identifiers and      *)
(* literals, so that the identifier at position k is the distinct name     *)
(* "v<k>" and the literal at position k the distinct value k.              *)
(***************************************************************************)
Tok(type, name, num) == [type |-> type, name |-> name, num |-> num]

TokOCBR == Tok("OCBR", "", 0)
TokCCBR == Tok("CCBR", "", 0)
TokOBR == Tok("OBR", "", 0)
TokCBR == Tok("CBR", "", 0)
TokSMC == Tok("SMC", "", 0)
TokOp(op) == Tok("OP", op, 0)
TokKwd(name) == Tok("KWD", name, 0)
TokVar(k) == Tok("VAR", "v", k)
TokNum(k) == Tok("NUM", "", k)

(***************************************************************************)
(* The current token.  Every action that evaluates one of these is enabled *)
(* only when toks[id + 1] exists (HaveTok); the lexer side supplies it.    *)
(***************************************************************************)
HaveTok == id < Len(toks)
CUR == toks[id + 1]
CUR_TYPE == CUR.type
CUR_OP == CUR.name
CUR_NUM == CUR.num

(***************************************************************************)
(* Nodes.                                                                  *)
(***************************************************************************)
Node(type, name, num, left, right) ==
    [type |-> type, name |-> name, num |-> num, left |-> left, right |-> right]

CR_SMC(left, right) == Node("SMC", "", 0, left, right)
CR_SCS(left, right) == Node("SCS", "", 0, left, right)
CR_SCE(left, right) == Node("SCE", "", 0, left, right)
CR_KWD(name, left, right) == Node("KWD", name, 0, left, right)
CR_ASS(left, right) == Node("ASS", "", 0, left, right)
CR_OP(op, left, right) == Node("OP", op, 0, left, right)
CR_NUM(val, left, right) == Node("NUM", "", val, left, right)
CR_VAR(name, num, left, right) == Node("VAR", name, num, left, right)

IS_KWD(name, kwd) == name = kwd

\* get_scope_end: the last node of the chain of right links that starts at root.
RECURSIVE get_scope_end_in(_, _)
get_scope_end_in(h, root) ==
    IF root = NULL THEN root
    ELSE IF h[root].right # NULL THEN get_scope_end_in(h, h[root].right)
    ELSE root

get_scope_end(root) == get_scope_end_in(heap, root)

(***************************************************************************)
(* Call stack.                                                             *)
(***************************************************************************)
Frame(fn) ==
    CASE fn = "get_scope" ->
           [fn |-> fn, pc |-> "entry", scope_sce_debt |-> 0, root |-> NULL,
            cur_node |-> NULL, scope_end |-> NULL]
      [] fn = "get_cmd" -> [fn |-> fn, pc |-> "entry", cmd |-> NULL, d0 |-> sce_debt]
      [] fn = "get_cond" ->
           [fn |-> fn, pc |-> "entry", kwd |-> NULL, br_expr |-> NULL,
            root |-> NULL, cur_node |-> NULL]
      [] fn = "get_ass" -> [fn |-> fn, pc |-> "entry", var |-> NULL]
      [] fn = "get_id" -> [fn |-> fn, pc |-> "entry", var_name |-> "", child |-> NULL]
      [] fn \in {"get_add", "get_mul", "get_pow"} ->
           [fn |-> fn, pc |-> "entry", val |-> NULL, op |-> ""]
      [] OTHER -> [fn |-> fn, pc |-> "entry", val |-> NULL]

Top == stack[Len(stack)]
At(fn, pc) == status = "run" /\ Len(stack) > 0 /\ Top.fn = fn /\ Top.pc = pc
SetTop(f) == [stack EXCEPT ![Len(stack)] = f]
Pop == SubSeq(stack, 1, Len(stack) - 1)

\* Continue in the same production at program point f.pc with locals f.
Goto(f) ==
    /\ stack' = SetTop(f)
    /\ UNCHANGED <<ret, status, errSeen>>

\* Call production fn; the caller resumes at f.pc with locals f.
Call(f, fn) ==
    /\ stack' = Append(SetTop(f), Frame(fn))
    /\ UNCHANGED <<ret, status, errSeen>>

\* return v;
Return(v) ==
    /\ stack' = Pop
    /\ ret' = v
    /\ status' = IF Len(stack) = 1 THEN "done" ELSE status
    /\ errSeen' = errSeen

\* SYNTAX_ERROR: report, return NULL.
SYNTAX_ERROR ==
    /\ stack' = Pop
    /\ ret' = NULL
    /\ status' = IF Len(stack) = 1 THEN "done" ELSE status
    /\ errSeen' = TRUE

\* A store or load through a null pointer.
Crash ==
    /\ status' = "crash"
    /\ UNCHANGED <<stack, ret, errSeen>>

env == <<toks, over, byte_code, labels, jmp_poses, asm_pc, asm_line, last_write>>

(***************************************************************************)
(* get_scope                                                               *)
(***************************************************************************)
\* if(CUR_TYPE == OCBR) { scope_sce_debt = sce_debt; sce_debt = 0; id++;
\*   root = get_scope(); ... } else { root = get_cmd(); ... }
GetScopeEntry ==
    /\ At("get_scope", "entry") /\ HaveTok
    /\ IF CUR_TYPE = "OCBR"
       THEN /\ sce_debt' = 0
            /\ id' = id + 1
            /\ Call([Top EXCEPT !.pc = "first", !.scope_sce_debt = sce_debt], "get_scope")
       ELSE /\ Call([Top EXCEPT !.pc = "cmd"], "get_cmd")
            /\ UNCHANGED <<sce_debt, id>>
    /\ UNCHANGED <<heap, cmd_log, env>>

\* B_tree_node *root = get_scope(); CHECK_RET(root); cur_node = root;
GetScopeFirst ==
    /\ At("get_scope", "first")
    /\ IF ret = NULL
       THEN Return(NULL)
       ELSE Goto([Top EXCEPT !.pc = "loop", !.root = ret, !.cur_node = ret])
    /\ UNCHANGED <<id, sce_debt, heap, cmd_log, env>>

\* while(CUR_TYPE != CCBR) { scope_end = get_scope_end(cur_node);
\*                           scope_end->right = get_scope(); ...
GetScopeLoop ==
    /\ At("get_scope", "loop") /\ HaveTok
    /\ IF CUR_TYPE # "CCBR"
       THEN Call([Top EXCEPT !.pc = "link", !.scope_end = get_scope_end(Top.cur_node)],
                 "get_scope")
       ELSE Goto([Top EXCEPT !.pc = "close"])
    /\ UNCHANGED <<id, sce_debt, heap, cmd_log, env>>

\* scope_end->right = <the value get_scope() returned>; cur_node = cur_node->right;
GetScopeLink ==
    /\ At("get_scope", "link")
    /\ IF Top.scope_end = NULL \/ Top.cur_node = NULL
       THEN /\ Crash
            /\ heap' = heap
       ELSE /\ heap' = [heap EXCEPT ![Top.scope_end].right = ret]
            /\ Goto([Top EXCEPT !.pc = "loop", !.cur_node = heap'[Top.cur_node].right])
    /\ UNCHANGED <<id, sce_debt, cmd_log, env>>

\* The root of a closed scope: an SCS node; a root that is one already gets
\* a new SCS parent.
ScopeHead(h, root) ==
    IF h[root].type = "SCS"
    THEN [h |-> Append(h, CR_SCS(NULL, root)), root |-> Len(h) + 1]
    ELSE [h |-> [h EXCEPT ![root].type = "SCS"], root |-> root]

\* for(debt_id < scope_sce_debt) root = CR_SCE(NULL, root);
RECURSIVE PayScopeDebt(_, _, _)
PayScopeDebt(h, root, debt) ==
    IF debt = 0 THEN [h |-> h, root |-> root]
    ELSE PayScopeDebt(Append(h, CR_SCE(NULL, root)), Len(h) + 1, debt - 1)

\* sce_debt++; id++; root becomes the scope's SCS head; the debt the scope
\* was entered with is paid in SCE nodes above it; return root;
GetScopeClose ==
    /\ At("get_scope", "close")
    /\ sce_debt' = sce_debt + 1
    /\ id' = id + 1
    /\ LET head == ScopeHead(heap, Top.root)
           paid == PayScopeDebt(head.h, head.root, Top.scope_sce_debt)
       IN  /\ heap' = paid.h
           /\ Return(paid.root)
    /\ UNCHANGED <<cmd_log, env>>

\* B_tree_node *root = get_cmd(); CHECK_RET(root); return root;
GetScopeCmd ==
    /\ At("get_scope", "cmd")
    /\ Return(ret)
    /\ UNCHANGED <<id, sce_debt, heap, cmd_log, env>>

(***************************************************************************)
(* get_cmd                                                                 *)
(***************************************************************************)
\* if(CUR_TYPE == KWD) cmd = get_cond(); else cmd = get_ass();
GetCmdEntry ==
    /\ At("get_cmd", "entry") /\ HaveTok
    /\ IF CUR_TYPE = "KWD"
       THEN Call([Top EXCEPT !.pc = "after_cond"], "get_cond")
       ELSE Call([Top EXCEPT !.pc = "after_ass"], "get_ass")
    /\ UNCHANGED <<id, sce_debt, heap, cmd_log, env>>

\* cmd_parent = CR_SCE(NULL, NULL); debt - 1 further SCE nodes linked through
\* right; cur_node->left = cmd.  The chain's head is at Len(h) + 1.
DebtChain(h, cmd, debt) ==
    h \o [k \in 1..debt |->
            CR_SCE(IF k = debt THEN cmd ELSE NULL,
                   IF k < debt THEN Len(h) + k + 1 ELSE NULL)]

\* The nodes of the chain of right links that starts at p.
RECURSIVE ChainOf(_, _)
ChainOf(h, p) == IF p = NULL THEN <<>> ELSE <<h[p]>> \o ChainOf(h, h[p].right)

\* if(sce_debt) { ...chain...; sce_debt = 0; return cmd_parent; }
\* else return CR_SMC(cmd, NULL);
CmdResult(cmd) ==
    /\ heap' = IF sce_debt # 0 THEN DebtChain(heap, cmd, sce_debt)
               ELSE Append(heap, CR_SMC(cmd, NULL))
    /\ sce_debt' = 0
    /\ cmd_log' = [d |-> Top.d0, cmd |-> cmd, debt |-> sce_debt',
                    chain |-> ChainOf(heap', Len(heap) + 1)]
    /\ Return(Len(heap) + 1)

\* cmd = get_cond(); CHECK_RET(cmd); then the result node.
GetCmdAfterCond ==
    /\ At("get_cmd", "after_cond")
    /\ IF ret = NULL
       THEN /\ Return(NULL)
            /\ UNCHANGED <<heap, sce_debt, cmd_log>>
       ELSE CmdResult(ret)
    /\ UNCHANGED <<id, env>>

\* cmd = get_ass(); CHECK_RET(cmd);
GetCmdAfterAss ==
    /\ At("get_cmd", "after_ass")
    /\ IF ret = NULL
       THEN Return(NULL)
       ELSE Goto([Top EXCEPT !.pc = "smc", !.cmd = ret])
    /\ UNCHANGED <<id, sce_debt, heap, cmd_log, env>>

\* if(CUR_TYPE == SMC) { id++; the result node } else SYNTAX_ERROR;
GetCmdSmc ==
    /\ At("get_cmd", "smc") /\ HaveTok
    /\ IF CUR_TYPE = "SMC"
       THEN /\ id' = id + 1
            /\ CmdResult(Top.cmd)
       ELSE /\ SYNTAX_ERROR
            /\ UNCHANGED <<id, heap, sce_debt, cmd_log>>
    /\ UNCHANGED env

(***************************************************************************)
(* get_cond                                                                *)
(***************************************************************************)
\* B_tree_node *kwd = get_id();
GetCondEntry ==
    /\ At("get_cond", "entry")
    /\ Call([Top EXCEPT !.pc = "after_id"], "get_id")
    /\ UNCHANGED <<id, sce_debt, heap, cmd_log, env>>

\* CHECK_RET(kwd); SYNTAX_CHECK(IS_KWD(.., "while") || IS_KWD(.., "if"));
GetCondAfterId ==
    /\ At("get_cond", "after_id")
    /\ IF ret = NULL
       THEN Return(NULL)
       ELSE IF IS_KWD(heap[ret].name, "while") \/ IS_KWD(heap[ret].name, "if")
       THEN Goto([Top EXCEPT !.pc = "obr", !.kwd = ret])
       ELSE SYNTAX_ERROR
    /\ UNCHANGED <<id, sce_debt, heap, cmd_log, env>>

\* if(CUR_TYPE == OBR) { id++; br_expr = get_add(); ... } else SYNTAX_ERROR;
GetCondObr ==
    /\ At("get_cond", "obr") /\ HaveTok
    /\ IF CUR_TYPE = "OBR"
       THEN /\ id' = id + 1
            /\ Call([Top EXCEPT !.pc = "after_expr"], "get_add")
       ELSE /\ SYNTAX_ERROR
            /\ id' = id
    /\ UNCHANGED <<sce_debt, heap, cmd_log, env>>

\* br_expr = get_add(); CHECK_RET(br_expr);
GetCondAfterExpr ==
    /\ At("get_cond", "after_expr")
    /\ IF ret = NULL
       THEN Return(NULL)
       ELSE Goto([Top EXCEPT !.pc = "cbr", !.br_expr = ret])
    /\ UNCHANGED <<id, sce_debt, heap, cmd_log, env>>

\* if(CUR_TYPE == CBR) { id++; ... } else SYNTAX_ERROR;
GetCondCbr ==
    /\ At("get_cond", "cbr") /\ HaveTok
    /\ IF CUR_TYPE = "CBR"
       THEN /\ id' = id + 1
            /\ Goto([Top EXCEPT !.pc = "body"])
       ELSE /\ SYNTAX_ERROR
            /\ id' = id
    /\ UNCHANGED <<sce_debt, heap, cmd_log, env>>

\* if(CUR_TYPE == OCBR) { id++; root = get_cmd(); ... } else { cmd = get_cmd(); ... }
GetCondBody ==
    /\ At("get_cond", "body") /\ HaveTok
    /\ IF CUR_TYPE = "OCBR"
       THEN /\ id' = id + 1
            /\ Call([Top EXCEPT !.pc = "first_cmd"], "get_cmd")
       ELSE /\ id' = id
            /\ Call([Top EXCEPT !.pc = "single"], "get_cmd")
    /\ UNCHANGED <<sce_debt, heap, cmd_log, env>>

\* B_tree_node *root = get_cmd(); B_tree_node *cur_node = root;
GetCondFirstCmd ==
    /\ At("get_cond", "first_cmd")
    /\ Goto([Top EXCEPT !.pc = "loop", !.root = ret, !.cur_node = ret])
    /\ UNCHANGED <<id, sce_debt, heap, cmd_log, env>>

\* while(CUR_TYPE != CCBR) { cur_node->right = get_cmd(); ... }
\* id++; return CR_KWD(kwd->value.var_value, br_expr, root);
GetCondLoop ==
    /\ At("get_cond", "loop") /\ HaveTok
    /\ IF CUR_TYPE # "CCBR"
       THEN /\ Call([Top EXCEPT !.pc = "link"], "get_cmd")
            /\ UNCHANGED <<id, heap>>
       ELSE /\ id' = id + 1
            /\ heap' = Append(heap, CR_KWD(heap[Top.kwd].name, Top.br_expr, Top.root))
            /\ Return(Len(heap) + 1)
    /\ UNCHANGED <<sce_debt, cmd_log, env>>

\* cur_node->right = <the value get_cmd() returned>; CHECK_RET(cur_node->right);
\* cur_node = cur_node->right;
GetCondLink ==
    /\ At("get_cond", "link")
    /\ IF Top.cur_node = NULL
       THEN /\ Crash
            /\ heap' = heap
       ELSE /\ heap' = [heap EXCEPT ![Top.cur_node].right = ret]
            /\ IF ret = NULL
               THEN Return(NULL)
               ELSE Goto([Top EXCEPT !.pc = "loop", !.cur_node = ret])
    /\ UNCHANGED <<id, sce_debt, cmd_log, env>>

\* B_tree_node *cmd = get_cmd(); CHECK_RET(cmd); return CR_KWD(.., br_expr, cmd);
GetCondSingle ==
    /\ At("get_cond", "single")
    /\ IF ret = NULL
       THEN /\ Return(NULL)
            /\ heap' = heap
       ELSE /\ heap' = Append(heap, CR_KWD(heap[Top.kwd].name, Top.br_expr, ret))
            /\ Return(Len(heap) + 1)
    /\ UNCHANGED <<id, sce_debt, cmd_log, env>>

(***************************************************************************)
(* get_ass                                                                 *)
(***************************************************************************)
\* B_tree_node *var = get_id();
GetAssEntry ==
    /\ At("get_ass", "entry")
    /\ Call([Top EXCEPT !.pc = "after_id"], "get_id")
    /\ UNCHANGED <<id, sce_debt, heap, cmd_log, env>>

\* CHECK_RET(var);
GetAssAfterId ==
    /\ At("get_ass", "after_id")
    /\ IF ret = NULL
       THEN Return(NULL)
       ELSE Goto([Top EXCEPT !.pc = "ass", !.var = ret])
    /\ UNCHANGED <<id, sce_debt, heap, cmd_log, env>>

\* if(CUR_TYPE == OP && CUR_OP == ASS) id++; else SYNTAX_ERROR;  expr = get_add();
GetAssOp ==
    /\ At("get_ass", "ass") /\ HaveTok
    /\ IF CUR_TYPE = "OP" /\ CUR_OP = "ASS"
       THEN /\ id' = id + 1
            /\ Call([Top EXCEPT !.pc = "after_expr"], "get_add")
       ELSE /\ SYNTAX_ERROR
            /\ id' = id
    /\ UNCHANGED <<sce_debt, heap, cmd_log, env>>

\* CHECK_RET(expr); return CR_ASS(var, expr);
GetAssAfterExpr ==
    /\ At("get_ass", "after_expr")
    /\ IF ret = NULL
       THEN /\ Return(NULL)
            /\ heap' = heap
       ELSE /\ heap' = Append(heap, CR_ASS(Top.var, ret))
            /\ Return(Len(heap) + 1)
    /\ UNCHANGED <<id, sce_debt, cmd_log, env>>

(***************************************************************************)
(* get_num                                                                 *)
(***************************************************************************)
\* btr_elem_t val = CUR_NUM; id++; return CR_NUM(val, NULL, NULL);
GetNum ==
    /\ At("get_num", "entry") /\ HaveTok
    /\ id' = id + 1
    /\ heap' = Append(heap, CR_NUM(CUR_NUM, NULL, NULL))
    /\ Return(Len(heap) + 1)
    /\ UNCHANGED <<sce_debt, cmd_log, env>>

(***************************************************************************)
(* get_add, get_mul, get_pow: fn parses operands with callee and folds     *)
(* them over the operators ops.                                            *)
(***************************************************************************)
\* B_tree_node *val = callee();
LevelEntry(fn, callee) ==
    /\ At(fn, "entry")
    /\ Call([Top EXCEPT !.pc = "first"], callee)
    /\ UNCHANGED <<id, sce_debt, heap, cmd_log, env>>

\* CHECK_RET(val);
LevelFirst(fn) ==
    /\ At(fn, "first")
    /\ IF ret = NULL
       THEN Return(NULL)
       ELSE Goto([Top EXCEPT !.pc = "loop", !.val = ret])
    /\ UNCHANGED <<id, sce_debt, heap, cmd_log, env>>

\* while(CUR_TYPE == OP && CUR_OP is one of ops) { op = CUR_OP; id++;
\*                                                 val_2 = callee(); ... }
\* return val;
LevelLoop(fn, callee, ops) ==
    /\ At(fn, "loop") /\ HaveTok
    /\ IF CUR_TYPE = "OP" /\ CUR_OP \in ops
       THEN /\ id' = id + 1
            /\ Call([Top EXCEPT !.pc = "next", !.op = CUR_OP], callee)
       ELSE /\ id' = id
            /\ Return(Top.val)
    /\ UNCHANGED <<sce_debt, heap, cmd_log, env>>

\* CHECK_RET(val_2); val = CR_OP(op, val, val_2);
LevelNext(fn) ==
    /\ At(fn, "next")
    /\ IF ret = NULL
       THEN /\ Return(NULL)
            /\ heap' = heap
       ELSE /\ heap' = Append(heap, CR_OP(Top.op, Top.val, ret))
            /\ Goto([Top EXCEPT !.pc = "loop", !.val = Len(heap) + 1])
    /\ UNCHANGED <<id, sce_debt, cmd_log, env>>

AddOps == {"ADD", "SUB"}
\* A get_mul that folds + as well.
MulOpsWithAdd == {"MUL", "DIV", "ADD"}
MulOps == {"MUL", "DIV"}
PowOps == {"POW"}

GetAddEntry == LevelEntry("get_add", "get_mul")
GetAddFirst == LevelFirst("get_add")
GetAddLoop == LevelLoop("get_add", "get_mul", AddOps)
GetAddNext == LevelNext("get_add")

GetMulEntry == LevelEntry("get_mul", "get_pow")
GetMulFirst == LevelFirst("get_mul")
GetMulLoop == LevelLoop("get_mul", "get_pow", MulOps)
GetMulNext == LevelNext("get_mul")

GetPowEntry == LevelEntry("get_pow", "get_par")
GetPowFirst == LevelFirst("get_pow")
GetPowLoop == LevelLoop("get_pow", "get_par", PowOps)
GetPowNext == LevelNext("get_pow")

(***************************************************************************)
(* get_par                                                                 *)
(***************************************************************************)
\* if(CUR_TYPE == OBR) { id++; val = get_add(); ... }
\* else if(CUR_TYPE == NUM) val = get_num(); else val = get_id();
GetParEntry ==
    /\ At("get_par", "entry") /\ HaveTok
    /\ IF CUR_TYPE = "OBR"
       THEN /\ id' = id + 1
            /\ Call([Top EXCEPT !.pc = "after_add"], "get_add")
       ELSE /\ id' = id
            /\ Call([Top EXCEPT !.pc = "after_leaf"],
                    IF CUR_TYPE = "NUM" THEN "get_num" ELSE "get_id")
    /\ UNCHANGED <<sce_debt, heap, cmd_log, env>>

\* val = get_add(); CHECK_RET(val);
GetParAfterAdd ==
    /\ At("get_par", "after_add")
    /\ IF ret = NULL
       THEN Return(NULL)
       ELSE Goto([Top EXCEPT !.pc = "cbr", !.val = ret])
    /\ UNCHANGED <<id, sce_debt, heap, cmd_log, env>>

\* SYNTAX_CHECK(CUR_TYPE == CBR); id++; return val;
GetParCbr ==
    /\ At("get_par", "cbr") /\ HaveTok
    /\ IF CUR_TYPE = "CBR"
       THEN /\ id' = id + 1
            /\ Return(Top.val)
       ELSE /\ SYNTAX_ERROR
            /\ id' = id
    /\ UNCHANGED <<sce_debt, heap, cmd_log, env>>

\* val = get_num() or get_id(); CHECK_RET(val); return val;
GetParAfterLeaf ==
    /\ At("get_par", "after_leaf")
    /\ Return(ret)
    /\ UNCHANGED <<id, sce_debt, heap, cmd_log, env>>

(***************************************************************************)
(* get_id                                                                  *)
(***************************************************************************)
\* char *var_name = tokens->data[id].value.var_value;
\* if(CUR_TYPE == KWD) { id++; "while"/"if": return CR_KWD(var_name, NULL, NULL);
\*                       any other keyword: a call, see below }
\* else { id++; return CR_VAR(var_name, NULL, NULL); }
GetIdEntry ==
    /\ At("get_id", "entry") /\ HaveTok
    /\ id' = id + 1
    /\ IF CUR_TYPE = "KWD"
       THEN IF ~(IS_KWD(CUR.name, "while") \/ IS_KWD(CUR.name, "if"))
            THEN /\ Goto([Top EXCEPT !.pc = "call_obr", !.var_name = CUR.name])
                 /\ heap' = heap
            ELSE /\ heap' = Append(heap, CR_KWD(CUR.name, NULL, NULL))
                 /\ Return(Len(heap) + 1)
       ELSE /\ heap' = Append(heap, CR_VAR(CUR.name, CUR.num, NULL, NULL))
            /\ Return(Len(heap) + 1)
    /\ UNCHANGED <<sce_debt, cmd_log, env>>

\* if(CUR_TYPE == OBR) { id++; child = get_add(); ... } else SYNTAX_ERROR;
GetIdCallObr ==
    /\ At("get_id", "call_obr") /\ HaveTok
    /\ IF CUR_TYPE = "OBR"
       THEN /\ id' = id + 1
            /\ Call([Top EXCEPT !.pc = "after_arg"], "get_add")
       ELSE /\ SYNTAX_ERROR
            /\ id' = id
    /\ UNCHANGED <<sce_debt, heap, cmd_log, env>>

\* child = get_add(); CHECK_RET(child);
GetIdAfterArg ==
    /\ At("get_id", "after_arg")
    /\ IF ret = NULL
       THEN Return(NULL)
       ELSE Goto([Top EXCEPT !.pc = "call_cbr", !.child = ret])
    /\ UNCHANGED <<id, sce_debt, heap, cmd_log, env>>

\* if(CUR_TYPE == CBR) { id++; return CR_KWD(var_name, NULL, child); }
\* else SYNTAX_ERROR;
GetIdCallCbr ==
    /\ At("get_id", "call_cbr") /\ HaveTok
    /\ IF CUR_TYPE = "CBR"
       THEN /\ id' = id + 1
            /\ heap' = Append(heap, CR_KWD(Top.var_name, NULL, Top.child))
            /\ Return(Len(heap) + 1)
       ELSE /\ SYNTAX_ERROR
            /\ UNCHANGED <<id, heap>>
    /\ UNCHANGED <<sce_debt, cmd_log, env>>

(***************************************************************************)
(* The lexer side.  The program points at which the next step of the       *)
(* innermost production evaluates tokens->data[id].                        *)
(***************************************************************************)
ReadPoints ==
    {<<"get_scope", "entry">>, <<"get_scope", "loop">>,
     <<"get_cmd", "entry">>, <<"get_cmd", "smc">>,
     <<"get_cond", "obr">>, <<"get_cond", "cbr">>, <<"get_cond", "body">>,
     <<"get_cond", "loop">>,
     <<"get_ass", "ass">>, <<"get_num", "entry">>,
     <<"get_add", "loop">>, <<"get_mul", "loop">>, <<"get_pow", "loop">>,
     <<"get_par", "entry">>, <<"get_par", "cbr">>,
     <<"get_id", "entry">>, <<"get_id", "call_obr">>, <<"get_id", "call_cbr">>}

NeedTok ==
    /\ status = "run" /\ Len(stack) > 0
    /\ <<Top.fn, Top.pc>> \in ReadPoints
    /\ ~HaveTok

RECURSIVE CountTok(_, _)
CountTok(ts, type) ==
    IF ts = <<>> THEN 0
    ELSE (IF Head(ts).type = type THEN 1 ELSE 0) + CountTok(Tail(ts), type)

BraceDepth(ts) == CountTok(ts, "OCBR") - CountTok(ts, "CCBR")

\* What a read past the end of the token array can find there: a token of
\* any tag and payload the parser tells apart, or of a tag it does not know.
JunkToks ==
    {TokOCBR, TokCCBR, TokOBR, TokCBR, TokSMC, TokVar(0), TokNum(0),
     Tok("JUNK", "", 0)}
    \cup {TokOp(op) : op \in {"ASS", "ADD", "SUB", "MUL", "DIV", "POW"}}
    \cup {TokKwd(k) : k \in {"if", "while", "sin"}}

\* The read at index id lies past the end of the input.
ReadPastEnd ==
    /\ over < MaxOver
    /\ \E t \in JunkToks : toks' = Append(toks, t)
    /\ over' = over + 1

\* Statement-level inputs are made of these pieces; p tokens precede the piece.
StmtChunk(p) == <<TokVar(p + 1), TokOp("ASS"), TokNum(p + 3), TokSMC>>
StmtNoSmcChunk(p) == <<TokVar(p + 1), TokOp("ASS"), TokNum(p + 3)>>
CondChunk(p, kwd) == <<TokKwd(kwd), TokOBR, TokVar(p + 3), TokCBR>>
CondNoCbrChunk(p, kwd) == <<TokKwd(kwd), TokOBR, TokVar(p + 3)>>
ExprStmtChunk(p) ==
    <<TokVar(p + 1), TokOp("ASS"), TokKwd("sin"), TokOBR, TokOBR, TokNum(p + 6),
      TokCBR, TokCBR, TokOp("ADD"), TokNum(p + 10), TokOp("MUL"), TokNum(p + 12),
      TokOp("POW"), TokNum(p + 14), TokSMC>>

\* Braces and complete statements.
Chunks(ts, kwds) ==
    LET p == Len(ts)
    IN  (IF BraceDepth(ts) < MaxDepth THEN {<<TokOCBR>>} ELSE {})
        \cup {<<TokCCBR>>, StmtChunk(p), ExprStmtChunk(p)}
        \cup {CondChunk(p, k) : k \in kwds}

\* A statement without its semicolon, a condition without its closing parenthesis.
FlawedChunks(ts) ==
    LET p == Len(ts)
    IN  {StmtNoSmcChunk(p), CondNoCbrChunk(p, "if")}

\* Any input of at most MaxLen tokens made of the pieces, flawed ones
\* included, which may end anywhere.
SupplyChunk ==
    /\ NeedTok
    /\ \/ /\ over = 0
          /\ \E c \in Chunks(toks, {"if", "while"}) \cup FlawedChunks(toks) :
                /\ Len(toks) + Len(c) <= MaxLen
                /\ toks' = toks \o c
          /\ over' = over
       \/ ReadPastEnd
    /\ UNCHANGED <<id, sce_debt, heap, stack, ret, status, errSeen, cmd_log, avars>>

\* Any input of at most MaxWfLen tokens made of braces and complete statements.
SupplyStmt ==
    /\ NeedTok
    /\ over = 0
    /\ \E c \in Chunks(toks, {"if"}) :
          /\ Len(toks) + Len(c) <= MaxWfLen
          /\ toks' = toks \o c
    /\ UNCHANGED <<over, id, sce_debt, heap, stack, ret, status, errSeen, cmd_log, avars>>

\* Any expression-level input of at most MaxExprLen tokens, token by token.
ExprToks(p) ==
    {TokNum(p + 1), TokVar(p + 1), TokOBR, TokCBR, TokSMC, TokKwd("sin"),
     TokOp("ADD"), TokOp("SUB"), TokOp("MUL"), TokOp("DIV"), TokOp("POW")}

SupplyToken ==
    /\ NeedTok
    /\ over = 0
    /\ Len(toks) < MaxExprLen
    /\ \E t \in ExprToks(Len(toks)) : toks' = Append(toks, t)
    /\ UNCHANGED <<over, id, sce_debt, heap, stack, ret, status, errSeen, cmd_log, avars>>

(***************************************************************************)
(* Specifications.                                                         *)
(***************************************************************************)
NoCmd == [d |-> 0, cmd |-> NULL, debt |-> 0, chain |-> <<>>]
NoWrite == [class |-> "none", at |-> 0, end |-> 0]

AsmOff ==
    /\ byte_code = <<>> /\ labels = <<>> /\ jmp_poses = <<>>
    /\ asm_pc = "off" /\ asm_line = 0 /\ last_write = NoWrite

InitParser(fn) ==
    /\ toks = <<>> /\ over = 0
    /\ id = 0 /\ sce_debt = 0
    /\ heap = <<>>
    /\ stack = <<Frame(fn)>>
    /\ ret = NULL /\ status = "run" /\ errSeen = FALSE
    /\ cmd_log = NoCmd

\* The parse of a token sequence, started at get_scope.
Init == InitParser("get_scope") /\ AsmOff

ExprStep ==
    \/ GetNum
    \/ GetAddEntry \/ GetAddFirst \/ GetAddLoop \/ GetAddNext
    \/ GetMulEntry \/ GetMulFirst \/ GetMulLoop \/ GetMulNext
    \/ GetPowEntry \/ GetPowFirst \/ GetPowLoop \/ GetPowNext
    \/ GetParEntry \/ GetParAfterAdd \/ GetParCbr \/ GetParAfterLeaf
    \/ GetIdEntry \/ GetIdCallObr \/ GetIdAfterArg \/ GetIdCallCbr

StmtStep ==
    \/ GetScopeEntry \/ GetScopeFirst \/ GetScopeLoop \/ GetScopeLink
    \/ GetScopeClose \/ GetScopeCmd
    \/ GetCmdEntry \/ GetCmdAfterCond \/ GetCmdAfterAss \/ GetCmdSmc
    \/ GetCondEntry \/ GetCondAfterId \/ GetCondObr \/ GetCondAfterExpr
    \/ GetCondCbr \/ GetCondBody \/ GetCondFirstCmd \/ GetCondLoop
    \/ GetCondLink \/ GetCondSingle
    \/ GetAssEntry \/ GetAssAfterId \/ GetAssOp \/ GetAssAfterExpr

Next == SupplyChunk \/ StmtStep \/ ExprStep

Spec == Init /\ [][Next]_vars

\* The same, on the inputs of SupplyStmt.
NextWf == SupplyStmt \/ StmtStep \/ ExprStep

SpecWf == Init /\ [][NextWf]_vars

\* The parse of an expression, started at get_add.
InitExpr == InitParser("get_add") /\ AsmOff

NextExpr == SupplyToken \/ ExprStep

SpecExpr == InitExpr /\ [][NextExpr]_vars

(***************************************************************************)
(* The assembler.  assembler_additional.h gives the tables, the constants  *)
(* and the signatures; the bodies follow the emission, resolution and      *)
(* entry-point passes of the design.  An offset is a count of bytes from   *)
(* the buffer start, so the byte at offset k is byte_code[k + 1].          *)
(***************************************************************************)
MaxInstr == 4       \* lines of the mnemonic text

SIZEOF_CHAR == 1
SIZEOF_INT == 4
SIZEOF_DOUBLE == 8

POISON_JMP_POS == -1
CMD_TYPE_ALIGNMENT_VALUE == 3
ALIGN_TO_INT == SIZEOF_INT - SIZEOF_CHAR
\* The padding of an int operand, used for a double.
PaddingOfInt == SIZEOF_INT - SIZEOF_CHAR
ALIGN_TO_DOUBLE == SIZEOF_DOUBLE - SIZEOF_CHAR
MAIN_JMP_NAME == "main"
SIX_BYTE_ALIGNMENT == 6
ONE_BYTE_ALIGNMENT == 1
TWO_BYTE_ALIGNMENT == 2

Label(name, IP_pos) == [name |-> name, IP_pos |-> IP_pos]
JMP_pos(name, IP_pos) == [name |-> name, IP_pos |-> IP_pos]

\* The opcode identifier of a mnemonic.
CmdByte(mn) ==
    CASE mn = "hlt" -> 0
      [] mn = "push" -> 1
      [] mn = "pop" -> 2
      [] mn = "jmp" -> 10
      [] mn = "call" -> 11

\* The bytes of an int in memory: two's complement, least significant first.
IntBytes(v) == [i \in 1..SIZEOF_INT |-> (v \div (256 ^ (i - 1))) % 256]

\* The int stored in the bytes at offset pos.
ReadInt(bc, pos) ==
    LET b(i) == bc[pos + i]
    IN  b(1) + 256 * b(2) + 65536 * b(3)
          + 16777216 * (IF b(4) >= 128 THEN b(4) - 256 ELSE b(4))

\* The bytes of the double immediates of the model: 0.0, 1.0 and 2.0.
DoubleBytes(v) ==
    CASE v = 0 -> <<0, 0, 0, 0, 0, 0, 0, 0>>
      [] v = 1 -> <<0, 0, 0, 0, 0, 0, 240, 63>>
      [] v = 2 -> <<0, 0, 0, 0, 0, 0, 0, 64>>

write_to_buf(bc, bytes) == bc \o bytes

align_buffer(bc, amount_of_bytes) == bc \o [i \in 1..amount_of_bytes |-> 0]

write_char_w_alignment(bc, value, alignment_space) ==
    align_buffer(write_to_buf(bc, <<value>>), alignment_space)

get_ip_pos == Len(byte_code)

\* An instruction with a placeholder operand, and the reference to patch.
WriteJmp(mn, name) ==
    LET bc == write_char_w_alignment(byte_code, CmdByte(mn), ALIGN_TO_INT)
    IN  /\ byte_code' = write_to_buf(bc, IntBytes(POISON_JMP_POS))
        /\ jmp_poses' = Append(jmp_poses, JMP_pos(name, Len(bc)))
        /\ last_write' = [class |-> "int", at |-> get_ip_pos, end |-> Len(byte_code')]

\* write_main_jmp: the entry jump, first in the buffer.
WriteMainJmp ==
    /\ asm_pc = "start"
    /\ WriteJmp("jmp", MAIN_JMP_NAME)
    /\ asm_pc' = "emit"
    /\ UNCHANGED <<labels, asm_line, pvars>>

\* cmds_process: the next line of the mnemonic text.
MoreLines == asm_pc = "emit" /\ asm_line < MaxInstr

AlignmentSpaces ==
    {ONE_BYTE_ALIGNMENT, TWO_BYTE_ALIGNMENT, CMD_TYPE_ALIGNMENT_VALUE,
     SIX_BYTE_ALIGNMENT, ALIGN_TO_INT, ALIGN_TO_DOUBLE}

\* An instruction without operand.
ProcessCmd ==
    /\ MoreLines
    /\ \E mn \in {"hlt"}, alignment_space \in AlignmentSpaces :
          /\ byte_code' = write_char_w_alignment(byte_code, CmdByte(mn), alignment_space)
          /\ last_write' = [class |-> "none", at |-> get_ip_pos, end |-> Len(byte_code')]
    /\ asm_line' = asm_line + 1
    /\ UNCHANGED <<labels, jmp_poses, asm_pc, pvars>>

\* An instruction with an int operand.
ProcessIntCmd ==
    /\ MoreLines
    /\ \E mn \in {"pop"}, value \in {0, 258} :
          /\ byte_code' =
                write_to_buf(write_char_w_alignment(byte_code, CmdByte(mn), ALIGN_TO_INT),
                             IntBytes(value))
          /\ last_write' = [class |-> "int", at |-> get_ip_pos, end |-> Len(byte_code')]
    /\ asm_line' = asm_line + 1
    /\ UNCHANGED <<labels, jmp_poses, asm_pc, pvars>>

\* An instruction with a double operand.
ProcessDoubleCmd ==
    /\ MoreLines
    /\ \E mn \in {"push"}, value \in {0, 1} :
          /\ byte_code' =
                write_to_buf(write_char_w_alignment(byte_code, CmdByte(mn), ALIGN_TO_DOUBLE),
                             DoubleBytes(value))
          /\ last_write' = [class |-> "double", at |-> get_ip_pos, end |-> Len(byte_code')]
    /\ asm_line' = asm_line + 1
    /\ UNCHANGED <<labels, jmp_poses, asm_pc, pvars>>

LabelNames == {"main", "next"}
JmpNames == {"next", "stop"}

\* A label definition.
ProcessLabel ==
    /\ MoreLines
    /\ \E name \in LabelNames : labels' = Append(labels, Label(name, get_ip_pos))
    /\ asm_line' = asm_line + 1
    /\ UNCHANGED <<byte_code, jmp_poses, asm_pc, last_write, pvars>>

\* A jump or a call.
ProcessJmp ==
    /\ MoreLines
    /\ \E mn \in {"jmp", "call"}, name \in JmpNames : WriteJmp(mn, name)
    /\ asm_line' = asm_line + 1
    /\ UNCHANGED <<labels, asm_pc, pvars>>

\* The slot of the label a name is bound to, the last one of that name; 0
\* when there is none.
FindLabel(ls, name) ==
    IF \E i \in 1..Len(ls) : ls[i].name = name
    THEN CHOOSE i \in 1..Len(ls) :
            ls[i].name = name /\ \A k \in (i + 1)..Len(ls) : ls[k].name # name
    ELSE 0

\* The buffer with the int v stored at offset pos.
PatchInt(bc, pos, v) ==
    [i \in 1..Len(bc) |->
        IF pos < i /\ i <= pos + SIZEOF_INT THEN IntBytes(v)[i - pos] ELSE bc[i]]

\* A patch with the label's slot in the table in place of its offset.
PatchSlot(ls, jmp) == FindLabel(ls, jmp.name)
\* The value a reference is patched with.
PatchValue(ls, jmp) == ls[FindLabel(ls, jmp.name)].IP_pos

\* The buffer after the first k references have been patched.
RECURSIVE PatchAll(_, _, _, _)
PatchAll(bc, ls, jmps, k) ==
    IF k = 0 THEN bc
    ELSE PatchInt(PatchAll(bc, ls, jmps, k - 1), jmps[k].IP_pos, PatchValue(ls, jmps[k]))

\* arrange_labels: every reference, the entry jump among them, gets the offset
\* of its label; a name without label ends the assembly.
ArrangeLabels ==
    /\ asm_pc = "emit"
    /\ IF \E j \in 1..Len(jmp_poses) : FindLabel(labels, jmp_poses[j].name) = 0
       THEN asm_pc' = "error" /\ UNCHANGED byte_code
       ELSE /\ asm_pc' = "done"
            /\ byte_code' = PatchAll(byte_code, labels, jmp_poses, Len(jmp_poses))
    /\ UNCHANGED <<labels, jmp_poses, asm_line, last_write, pvars>>

InitAsm ==
    /\ toks = <<>> /\ over = 0 /\ id = 0 /\ sce_debt = 0 /\ heap = <<>>
    /\ stack = <<>> /\ ret = NULL /\ status = "off" /\ errSeen = FALSE
    /\ cmd_log = NoCmd
    /\ byte_code = <<>> /\ labels = <<>> /\ jmp_poses = <<>>
    /\ asm_pc = "start" /\ asm_line = 0 /\ last_write = NoWrite

NextAsm ==
    \/ WriteMainJmp
    \/ ProcessCmd \/ ProcessIntCmd \/ ProcessDoubleCmd \/ ProcessLabel \/ ProcessJmp
    \/ ArrangeLabels

SpecAsm == InitAsm /\ [][NextAsm]_vars

(***************************************************************************)
(* Properties of the assembler.                                            *)
(***************************************************************************)
DefinedOnce(ls, l) == \A k \in 1..Len(ls) : ls[k].name = ls[l].name => k = l

\* C5 (label resolution): in the finalized byte code the operand of every
\* jump or call that names a label defined once, the entry jump included, is
\* the offset the label was defined at, wherever the definition stands.
LabelResolution ==
    asm_pc = "done" =>
        \A j \in 1..Len(jmp_poses), l \in 1..Len(labels) :
            (labels[l].name = jmp_poses[j].name /\ DefinedOnce(labels, l))
                => ReadInt(byte_code, jmp_poses[j].IP_pos) = labels[l].IP_pos

\* A finalized buffer with a label, not at offset 0, that one jump names
\* before its definition and another after it.
LabelResolutionWitness ==
    /\ asm_pc = "done"
    /\ \E l \in 1..Len(labels), j1, j2 \in 2..Len(jmp_poses) :
          /\ labels[l].name = "next" /\ DefinedOnce(labels, l)
          /\ jmp_poses[j1].name = "next" /\ jmp_poses[j2].name = "next"
          /\ jmp_poses[j1].IP_pos < labels[l].IP_pos
          /\ jmp_poses[j2].IP_pos > labels[l].IP_pos
          /\ ReadInt(byte_code, jmp_poses[j1].IP_pos) = labels[l].IP_pos
          /\ ReadInt(byte_code, jmp_poses[j2].IP_pos) = labels[l].IP_pos
          /\ ReadInt(byte_code, jmp_poses[1].IP_pos) > 0

Consumed == SubSeq(toks, 1, id)

\* The outermost production has returned a node, no SYNTAX_ERROR was executed
\* and no token was read past the end of the input.
CleanSuccess == status = "done" /\ ret # NULL /\ ~errSeen /\ over = 0

\* How many nodes of a type the tree at p holds.
RECURSIVE CountType(_, _, _)
CountType(h, p, type) ==
    IF p = NULL THEN 0
    ELSE (IF h[p].type = type THEN 1 ELSE 0)
         + CountType(h, h[p].left, type) + CountType(h, h[p].right, type)

\* The number of the first leaf of the expression at p.
RECURSIVE FirstLeaf(_, _)
FirstLeaf(h, p) ==
    IF p = NULL THEN 0
    ELSE IF h[p].left = NULL THEN h[p].num ELSE FirstLeaf(h, h[p].left)

IsCondKwd(name) == name \in {"if", "while"}

\* The statements of the tree at p as a walk meets them, a node before its
\* children and the left child before the right one: an assignment is named by
\* the number of its target, an if/while by the number of its condition.
RECURSIVE Walk(_, _)
Walk(h, p) ==
    IF p = NULL THEN <<>>
    ELSE IF h[p].type = "ASS" THEN <<FirstLeaf(h, h[p].left)>>
    ELSE IF h[p].type = "KWD"
    THEN (IF IsCondKwd(h[p].name) /\ h[p].left # NULL
          THEN <<FirstLeaf(h, h[p].left)>> ELSE <<>>) \o Walk(h, h[p].right)
    ELSE IF h[p].type \in {"SMC", "SCS", "SCE"}
    THEN Walk(h, h[p].left) \o Walk(h, h[p].right)
    ELSE <<>>

\* The statements of a token sequence in lexical order, named the same way.
RECURSIVE InputStmtsFrom(_, _)
InputStmtsFrom(ts, i) ==
    IF i > Len(ts) THEN <<>>
    ELSE (IF /\ i < Len(ts) /\ ts[i + 1].type = "OP" /\ ts[i + 1].name = "ASS"
          THEN <<ts[i].num>>
          ELSE IF /\ ts[i].type = "KWD" /\ IsCondKwd(ts[i].name) /\ i + 2 <= Len(ts)
          THEN <<ts[i + 2].num>>
          ELSE <<>>) \o InputStmtsFrom(ts, i + 1)

InputStmts(ts) == InputStmtsFrom(ts, 1)

IsOperand(t) == t.type \in {"NUM", "VAR"}

\* A closing brace, parenthesis or semicolon is missing: an operand stands
\* right before a closing brace, or more braces or parentheses open than close.
MissingCloser(ts) ==
    \/ \E i \in 1..(Len(ts) - 1) : IsOperand(ts[i]) /\ ts[i + 1].type = "CCBR"
    \/ CountTok(ts, "OCBR") > CountTok(ts, "CCBR")
    \/ CountTok(ts, "OBR") > CountTok(ts, "CBR")

\* C1 (fail-fast parsing): a parse of an input in which a closing brace,
\* closing parenthesis or semicolon is missing returns no node.
FailFast ==
    (status = "done" /\ over = 0 /\ MissingCloser(toks)) => ret = NULL

\* The token sequence is a brace scope of exactly k brace sub-scopes, each of
\* one assignment: { { v = n ; } ... { v = n ; } }.
SubScopeTypes == <<"OCBR", "VAR", "OP", "NUM", "SMC", "CCBR">>
IsSubScopes(ts, k) ==
    /\ Len(ts) = 6 * k + 2
    /\ ts[1].type = "OCBR" /\ ts[Len(ts)].type = "CCBR"
    /\ \A j \in 0..(k - 1) : \A m \in 1..6 : ts[1 + 6 * j + m].type = SubScopeTypes[m]

\* C2 (scope debt invariant): the chain returned for a scope of exactly k
\* consecutive sub-scopes without trailing statement holds exactly k SCE nodes
\* and sce_debt is zero once the scope has finished.
ScopeDebtInvariant ==
    \A k \in 1..3 :
        (CleanSuccess /\ IsSubScopes(Consumed, k))
            => (CountType(heap, ret, "SCE") = k /\ sce_debt = 0)

\* C3 (ordering guarantee): a successful parse returns a tree whose walk
\* meets every assignment and if/while of the input exactly once, in lexical
\* order.
OrderingGuarantee ==
    CleanSuccess => Walk(heap, ret) = InputStmts(Consumed)

\* C7 (first error aborts the parse): once SYNTAX_ERROR was executed no token
\* is consumed, no production is entered and no existing node is written.
FirstErrorAborts ==
    [][errSeen => /\ id' = id
                  /\ Len(stack') <= Len(stack)
                  /\ SubSeq(heap', 1, Len(heap)) = heap]_vars

\* C8 (debt payment on resume): a get_cmd entered with debt d > 0 returns the
\* head of a chain of exactly d SCE nodes, its command the left child of the
\* last, and leaves sce_debt 0; entered with d = 0 it returns one SMC node
\* with the command as left child and no next link.
DebtPaidOnResume ==
    cmd_log.chain # <<>> =>
        LET c == cmd_log.chain
        IN  IF cmd_log.d > 0
            THEN /\ Len(c) = cmd_log.d
                 /\ \A k \in 1..Len(c) : c[k].type = "SCE"
                 /\ c[Len(c)].left = cmd_log.cmd
                 /\ cmd_log.debt = 0
            ELSE /\ Len(c) = 1
                 /\ c[1].type = "SMC" /\ c[1].left = cmd_log.cmd /\ c[1].right = NULL

\* C9 (debt conservation): after a successful parse of a brace scope the SCS
\* nodes of the tree are as many as its SCE nodes plus sce_debt.
DebtConservation ==
    (CleanSuccess /\ toks[1].type = "OCBR")
        => CountType(heap, ret, "SCS") = CountType(heap, ret, "SCE") + sce_debt

\* C10 (cursor bounds): on an input of at least one token, id never decreases
\* and no token is read at an index past the last token of the input.
CursorBounds == [][Len(toks') - over' >= 1 => (id' >= id /\ over' = 0)]_vars

(***************************************************************************)
(* Expressions: the reference reading of a token sequence.  The operator   *)
(* that is applied last is the last one of the lowest level that stands    *)
(* outside every parenthesis; the levels are + -, then * /, then ^.        *)
(***************************************************************************)
DepthAt(ts, i) ==
    CountTok(SubSeq(ts, 1, i - 1), "OBR") - CountTok(SubSeq(ts, 1, i - 1), "CBR")

TopOps(ts, ops) ==
    {i \in 1..Len(ts) : ts[i].type = "OP" /\ ts[i].name \in ops /\ DepthAt(ts, i) = 0}

Last(S) == CHOOSE x \in S : \A y \in S : y <= x

Bad == <<"bad">>

RECURSIVE RefParse(_)
RefSplit(ts, i) ==
    LET l == RefParse(SubSeq(ts, 1, i - 1))
        r == RefParse(SubSeq(ts, i + 1, Len(ts)))
    IN  IF l = Bad \/ r = Bad THEN Bad ELSE <<"OP", ts[i].name, l, r>>

RefParse(ts) ==
    IF TopOps(ts, {"ADD", "SUB"}) # {} THEN RefSplit(ts, Last(TopOps(ts, {"ADD", "SUB"})))
    ELSE IF TopOps(ts, {"MUL", "DIV"}) # {}
    THEN RefSplit(ts, Last(TopOps(ts, {"MUL", "DIV"})))
    ELSE IF TopOps(ts, {"POW"}) # {} THEN RefSplit(ts, Last(TopOps(ts, {"POW"})))
    ELSE IF Len(ts) = 1 /\ IsOperand(ts[1]) THEN <<ts[1].type, ts[1].name, ts[1].num>>
    ELSE IF Len(ts) >= 3 /\ ts[1].type = "OBR" /\ ts[Len(ts)].type = "CBR"
    THEN RefParse(SubSeq(ts, 2, Len(ts) - 1))
    ELSE Bad

\* The expression tree at p, in the form RefParse gives.
RECURSIVE TreeOf(_, _)
TreeOf(h, p) ==
    IF p = NULL THEN <<"null">>
    ELSE IF h[p].type \in {"NUM", "VAR"} THEN <<h[p].type, h[p].name, h[p].num>>
    ELSE IF h[p].type = "OP"
    THEN <<"OP", h[p].name, TreeOf(h, h[p].left), TreeOf(h, h[p].right)>>
    ELSE <<"other", h[p].type>>

IsBinOp(t) == t.type = "OP" /\ t.name \in {"ADD", "SUB", "MUL", "DIV", "POW"}

TokShape(ts) == [i \in 1..Len(ts) |-> IF ts[i].type = "OP" THEN ts[i].name ELSE ts[i].type]

\* C4 (expression shape): when the input starts with a well-formed sequence
\* of operands and operators that no operator follows, get_add consumes
\* exactly that sequence and returns the tree of the reference reading; n+n*n
\* gives + with right child *, and n^n^n gives (n^n)^n.
ExpressionShape ==
    status = "done" =>
        /\ \A j \in 1..(Len(toks) - 1) :
              (~IsBinOp(toks[j + 1]) /\ RefParse(SubSeq(toks, 1, j)) # Bad)
                  => /\ ret # NULL
                     /\ id = j
                     /\ TreeOf(heap, ret) = RefParse(SubSeq(toks, 1, j))
        /\ (Len(toks) = 6 /\ TokShape(toks) = <<"NUM", "ADD", "NUM", "MUL", "NUM", "SMC">>)
              => /\ ret # NULL
                 /\ heap[ret].name = "ADD"
                 /\ heap[heap[ret].right].name = "MUL"
        /\ (Len(toks) = 6 /\ TokShape(toks) = <<"NUM", "POW", "NUM", "POW", "NUM", "SMC">>)
              => /\ ret # NULL
                 /\ heap[ret].name = "POW"
                 /\ heap[heap[ret].left].name = "POW"
                 /\ heap[heap[ret].right].type = "NUM"

\* A parse of n+n*n; has ended with the tree n+(n*n).
ExpressionShapeWitness ==
    /\ status = "done" /\ ret # NULL /\ id = 5
    /\ TokShape(toks) = <<"NUM", "ADD", "NUM", "MUL", "NUM", "SMC">>
    /\ TreeOf(heap, ret) =
          <<"OP", "ADD", <<"NUM", "", 1>>,
            <<"OP", "MUL", <<"NUM", "", 3>>, <<"NUM", "", 5>>>>>>

====
